---- MODULE Spec2Model ----
\* A model of cpinutil.py (the CPIN generator) and of its line-wrapping helper
\* addOn.  Strings are sequences of one-character strings, so that Python's
\* substring test (`in`), string.replace and split behave as they do in the
\* script.  pKa values are integers in hundredths (4.0 is 400).
EXTENDS Integers, Sequences, FiniteSets, TLC

VARIABLES
    pc,                      \* position of the script
    argv,                    \* sys.argv, as option groups (flag and values)
    args,                    \* the option groups of sys.argv not yet read
    titrate_residues,        \* the string of titratable names
    resnums, notresnums, residue_states,
    minpKa, maxpKa,
    resname_spec, nresname_spec, resnum_spec, nresnum_spec,
    prmtop_residues, prmtop_indices,
    titrated_residue_nums, titrated_residue_names,
    resdata,
    stdout,                  \* the field lines written to standard output
    failure,                 \* "none", or the error that ended the run
    line,                    \* addOn: the line being accumulated
    printed,                 \* addOn: the lines written so far
    toks, tn,                \* addOn: the tokens of the field, how many are appended
    start,                   \* addOn: what the line was set to before the loop
    apc,                     \* addOn: "idle", "run" or "done"
    tpc,                     \* titration loop: "idle", "loop" or "done"
    numres, numframes,       \* titration loop: the two counters of main
    nresidues,               \* titration loop: len(output_files)
    nrecords,                \* titration loop: residue records in each file
    nread,                   \* titration loop: records read from each file
    outlines                 \* titration loop: the lines written

mainvars == <<pc, argv, args,
              titrate_residues, resnums, notresnums, residue_states,
              minpKa, maxpKa, resname_spec, nresname_spec, resnum_spec,
              nresnum_spec, prmtop_residues, prmtop_indices,
              titrated_residue_nums, titrated_residue_names, resdata, stdout,
              failure>>
addvars == <<line, printed, toks, tn, start, apc>>
titrvars == <<tpc, numres, numframes, nresidues, nrecords, nread, outlines>>
vars == <<mainvars, addvars, titrvars>>

\* ---------------------------------------------------------------- bounds
MaxRes == 2
MaxNst == 2
MaxNatm == 2
MaxToks == 3

\* --------------------------------------------------------------- strings
SP == <<" ">>
AS4 == <<"A", "S", "4">>
GL4 == <<"G", "L", "4">>
HIP == <<"H", "I", "P">>
TYR == <<"T", "Y", "R">>
LYS == <<"L", "Y", "S">>
CYS == <<"C", "Y", "S">>
GLU == <<"G", "L", "U">>
ALA == <<"A", "L", "A">>
RG == <<"G">>

RECURSIVE Join(_)
Join(ss) == IF ss = <<>> THEN <<>> ELSE Head(ss) \o Join(Tail(ss))

\* Python: sub in s
Contains(sub, s) ==
    \E i \in 0..(Len(s) - Len(sub)) : SubSeq(s, i + 1, i + Len(sub)) = sub

\* Python: string.replace(s, old, '') for a non-empty old
RECURSIVE Replace(_, _)
Replace(s, old) ==
    IF Len(s) < Len(old) THEN s
    ELSE IF SubSeq(s, 1, Len(old)) = old
         THEN Replace(SubSeq(s, Len(old) + 1, Len(s)), old)
         ELSE <<Head(s)>> \o Replace(Tail(s), old)

\* Python: seq[i] with a 0-based index i, negative indices counting from the end
InIndex(seq, i) == i < Len(seq) /\ i >= -Len(seq)
PyIndex(seq, i) == IF i >= 0 THEN seq[i + 1] ELSE seq[Len(seq) + i + 1]

\* ------------------------------------------------------------- constants
titratable == Join(<<AS4, SP, GL4, SP, HIP, SP, TYR, SP, LYS, SP, CYS>>)
titrate_name_holder == <<AS4, GL4, HIP, TYR, LYS, CYS>>
exp_pkas == <<400, 440, 650, 960, 1040, 855>>
DefaultMaxpKa == 10000
DefaultMinpKa == -10000

\* ---------------------------------------------------------------- inputs
\* The residue labels of the topologies that are enumerated in full: two
\* titratable names and one that is not titratable.
ResNames == {GLU, AS4, TYR}

SeqsUpTo(S, n) == UNION {[1..k -> S] : k \in 0..n}

\* Scenario A of the specification, a topology with the RNA residue G, and
\* one with three titratable names, one of them borne by two residues
ScenarioTopology == <<ALA, GLU, AS4, TYR>>
RnaTopology == <<RG, AS4>>
ThreeNameTopology == <<TYR, LYS, LYS, AS4>>
Topologies ==
    SeqsUpTo(ResNames, MaxRes)
    \cup {ScenarioTopology, RnaTopology, ThreeNameTopology}

\* Lists of one or two values, as given after a flag
Lists(S) == {<<a>> : a \in S} \cup {<<a, b>> : a \in S, b \in S}

\* A value list cannot begin with a negative number: an argument that starts
\* with "-" is read as a flag; "0,-1" is one argument and gives 0 and -1
StateLists == {l \in Lists(-1..MaxNst) : l[1] >= 0}

Opt(f, ns, is) == [flag |-> f, names |-> ns, nums |-> is]

Opts ==
    {Opt("-resname", <<TYR>>, <<>>), Opt("-notresname", <<AS4>>, <<>>),
     Opt("-minpKa", <<>>, <<500>>), Opt("-maxpKa", <<>>, <<1100>>)}
    \cup {Opt("-resnum", <<>>, l) : l \in Lists(0..(MaxRes + 1))}
    \cup {Opt("-notresnum", <<>>, l) : l \in Lists(1..MaxRes)}
    \cup {Opt("-states", <<>>, l) : l \in StateLists}

\* Command lines of at most two options, no flag given twice
Argvs ==
    {<<>>} \cup {<<a>> : a \in Opts}
    \cup UNION {{<<a, b>> : b \in {o \in Opts : o.flag # a.flag}} : a \in Opts}

\* A reference state set: nst state records [energy, proton count, charges...]
RefSet(nst, natm) == [s \in 1..nst |-> [z \in 1..(natm + 2) |-> 0]]
RefSets == {RefSet(n, a) : n \in 1..MaxNst, a \in 1..MaxNatm}
\* getData's answer (-1) for a name the table does not hold
NotFound == <<>>

\* ------------------------------------------------------------------ Init
Init ==
    /\ pc = "parse"
    /\ argv \in Argvs
    /\ args = argv
    /\ titrate_residues = titratable
    /\ resnums = <<>>
    /\ notresnums = <<>>
    /\ residue_states = <<>>
    /\ minpKa = DefaultMinpKa
    /\ maxpKa = DefaultMaxpKa
    /\ resname_spec = FALSE
    /\ nresname_spec = FALSE
    /\ resnum_spec = FALSE
    /\ nresnum_spec = FALSE
    /\ prmtop_residues = <<>>
    /\ prmtop_indices = <<>>
    /\ titrated_residue_nums = <<>>
    /\ titrated_residue_names = <<>>
    /\ resdata = <<>>
    /\ stdout = <<>>
    /\ failure = "none"
    /\ line = <<>>
    /\ printed = <<>>
    /\ toks = <<>>
    /\ tn = 0
    /\ start = <<>>
    /\ apc = "idle"
    /\ tpc = "idle"
    /\ numres = 0
    /\ numframes = 0
    /\ nresidues = 0
    /\ nrecords = 0
    /\ nread = 0
    /\ outlines = <<>>

\* sys.exit() after an error message, or an uncaught exception
Fail(kind) == pc' = "exit" /\ failure' = kind

\* ------------------------------------------------------ argument parsing
\* -resname: each name is appended to the emptied string, followed by a space
RECURSIVE AddNames(_, _)
AddNames(s, ns) ==
    IF ns = <<>> THEN s ELSE AddNames(s \o Head(ns) \o SP, Tail(ns))

\* -notresname: each name is cut out of the string
RECURSIVE RemoveNames(_, _)
RemoveNames(s, ns) ==
    IF ns = <<>> THEN s ELSE RemoveNames(Replace(s, Head(ns)), Tail(ns))

\* -notresname testing its own flag instead of the one -resname sets
NotresnameClashOwnFlag == nresname_spec

\* The tests that refuse a filter whose opposite was given before
ResnameClash == nresname_spec
NotresnameClash == resname_spec
ResnumClash == nresnum_spec
NotresnumClash == resnum_spec

ParseArg ==
    /\ pc = "parse"
    /\ args # <<>>
    /\ LET o == Head(args) IN
       /\ args' = Tail(args)
       /\ CASE o.flag = "-minpKa" ->
                 /\ minpKa' = o.nums[1]
                 /\ UNCHANGED <<pc, failure, maxpKa, titrate_residues, resnums,
                                notresnums, residue_states, resname_spec,
                                nresname_spec, resnum_spec, nresnum_spec>>
            [] o.flag = "-maxpKa" ->
                 /\ maxpKa' = o.nums[1]
                 /\ UNCHANGED <<pc, failure, minpKa, titrate_residues, resnums,
                                notresnums, residue_states, resname_spec,
                                nresname_spec, resnum_spec, nresnum_spec>>
            [] o.flag = "-resname" ->
                 /\ IF ResnameClash
                    THEN /\ Fail("usage")
                         /\ UNCHANGED <<resname_spec, titrate_residues>>
                    ELSE /\ resname_spec' = TRUE
                         /\ titrate_residues' = AddNames(<<>>, o.names)
                         /\ UNCHANGED <<pc, failure>>
                 /\ UNCHANGED <<minpKa, maxpKa, resnums, notresnums,
                                residue_states, nresname_spec, resnum_spec,
                                nresnum_spec>>
            [] o.flag = "-notresname" ->
                 /\ IF NotresnameClash
                    THEN /\ Fail("usage")
                         /\ UNCHANGED <<nresname_spec, titrate_residues>>
                    ELSE /\ nresname_spec' = TRUE
                         /\ titrate_residues' =
                                RemoveNames(titrate_residues, o.names)
                         /\ UNCHANGED <<pc, failure>>
                 /\ UNCHANGED <<minpKa, maxpKa, resnums, notresnums,
                                residue_states, resname_spec, resnum_spec,
                                nresnum_spec>>
            [] o.flag = "-resnum" ->
                 /\ IF ResnumClash
                    THEN /\ Fail("usage")
                         /\ UNCHANGED <<resnum_spec, resnums>>
                    ELSE /\ resnum_spec' = TRUE
                         /\ resnums' = resnums \o o.nums
                         /\ UNCHANGED <<pc, failure>>
                 /\ UNCHANGED <<minpKa, maxpKa, titrate_residues, notresnums,
                                residue_states, resname_spec, nresname_spec,
                                nresnum_spec>>
            [] o.flag = "-notresnum" ->
                 /\ IF NotresnumClash
                    THEN /\ Fail("usage")
                         /\ UNCHANGED <<nresnum_spec, notresnums>>
                    ELSE /\ nresnum_spec' = TRUE
                         /\ notresnums' = notresnums \o o.nums
                         /\ UNCHANGED <<pc, failure>>
                 /\ UNCHANGED <<minpKa, maxpKa, titrate_residues, resnums,
                                residue_states, resname_spec, nresname_spec,
                                resnum_spec>>
            [] o.flag = "-states" ->
                 /\ residue_states' = residue_states \o o.nums
                 /\ UNCHANGED <<pc, failure, minpKa, maxpKa, titrate_residues,
                                resnums, notresnums, resname_spec,
                                nresname_spec, resnum_spec, nresnum_spec>>
    /\ UNCHANGED <<argv, prmtop_residues, prmtop_indices,
                   titrated_residue_nums, titrated_residue_names, resdata,
                   stdout>>
    /\ UNCHANGED addvars
    /\ UNCHANGED titrvars

\* The topology is read once the arguments are parsed; a topology without
\* residue labels ends the run.
ReadTopology ==
    /\ pc = "parse"
    /\ args = <<>>
    /\ \E t \in Topologies :
          /\ prmtop_residues' = t
          /\ prmtop_indices' = [i \in 1..Len(t) |-> i]
          /\ IF Len(t) = 0 THEN Fail("input")
                           ELSE pc' = "pka" /\ UNCHANGED failure
    /\ UNCHANGED <<argv, args,
                   titrate_residues, resnums, notresnums, residue_states,
                   minpKa, maxpKa, resname_spec, nresname_spec, resnum_spec,
                   nresnum_spec, titrated_residue_nums, titrated_residue_names,
                   resdata, stdout>>
    /\ UNCHANGED addvars
    /\ UNCHANGED titrvars

\* ------------------------------------------------------------ pKa filter
\* A built-in name whose pKa lies outside [minpKa, maxpKa] makes the script
\* evaluate `float in str`, which raises TypeError; nothing catches it.
PkaOutside(x) == exp_pkas[x] < minpKa \/ exp_pkas[x] > maxpKa

FilterPka ==
    /\ pc = "pka"
    /\ IF \E x \in 1..Len(titrate_name_holder) : PkaOutside(x)
       THEN Fail("TypeError")
       ELSE pc' = "select" /\ UNCHANGED failure
    /\ UNCHANGED <<argv, args,
                   titrate_residues, resnums, notresnums, residue_states,
                   minpKa, maxpKa, resname_spec, nresname_spec, resnum_spec,
                   nresnum_spec, prmtop_residues, prmtop_indices,
                   titrated_residue_nums, titrated_residue_names, resdata,
                   stdout>>
    /\ UNCHANGED addvars
    /\ UNCHANGED titrvars

\* ------------------------------------------------------------- selection
\* `name in titrate_residues`: a substring test on the string of names
Titratable(name) == Contains(name, titrate_residues)

\* The checks made on one number of the -resnum list
CheckNum(n) ==
    IF n > Len(prmtop_residues) THEN "range_num"
    ELSE IF ~InIndex(prmtop_residues, n - 1) THEN "IndexError"
    ELSE IF ~Titratable(PyIndex(prmtop_residues, n - 1)) THEN "not_titratable"
    ELSE "ok"

\* The loop over resnums stops at the first number that fails a check
RECURSIVE IncludeNums(_, _)
IncludeNums(rs, acc) ==
    IF rs = <<>> THEN [err |-> "ok", nums |-> acc]
    ELSE IF CheckNum(Head(rs)) # "ok"
         THEN [err |-> CheckNum(Head(rs)), nums |-> acc]
         ELSE IncludeNums(Tail(rs), Append(acc, Head(rs)))

\* The scan of the topology, from residue x on
RECURSIVE ScanNums(_, _)
ScanNums(x, acc) ==
    IF x > Len(prmtop_residues) THEN acc
    ELSE IF Titratable(prmtop_residues[x])
         THEN ScanNums(x + 1, Append(acc, x))
         ELSE ScanNums(x + 1, acc)

\* The scan made also when numbers were given (the `else` lost)
SelectedNoElse(rs) ==
    [err |-> IncludeNums(rs, <<>>).err,
     nums |-> IncludeNums(rs, <<>>).nums \o ScanNums(1, <<>>)]

\* The numbers given with -resnum if there are any, otherwise the scan
Selected(rs) ==
    IF Len(rs) # 0 THEN IncludeNums(rs, <<>>)
    ELSE [err |-> "ok", nums |-> ScanNums(1, <<>>)]

SelectResidues ==
    /\ pc = "select"
    /\ LET r == Selected(resnums) IN
       /\ titrated_residue_nums' = r.nums
       /\ IF r.err # "ok" THEN Fail(r.err)
          ELSE IF Len(r.nums) = 0 THEN Fail("no_residues")
          ELSE pc' = "filter" /\ UNCHANGED failure
    /\ UNCHANGED <<argv, args,
                   titrate_residues, resnums, notresnums, residue_states,
                   minpKa, maxpKa, resname_spec, nresname_spec, resnum_spec,
                   nresnum_spec, prmtop_residues, prmtop_indices,
                   titrated_residue_names, resdata, stdout>>
    /\ UNCHANGED addvars
    /\ UNCHANGED titrvars

\* pop() of the first entry equal to v, if there is one
RECURSIVE RemoveFirst(_, _)
RemoveFirst(seq, v) ==
    IF seq = <<>> THEN <<>>
    ELSE IF Head(seq) = v THEN Tail(seq)
    ELSE <<Head(seq)>> \o RemoveFirst(Tail(seq), v)

RECURSIVE FilterNotResnums(_, _)
FilterNotResnums(nums, nots) ==
    IF nots = <<>> THEN nums
    ELSE FilterNotResnums(RemoveFirst(nums, Head(nots)), Tail(nots))

ResName(num) == PyIndex(prmtop_residues, num - 1)

InSeq(v, seq) == \E y \in 1..Len(seq) : seq[y] = v

\* The names of the selected residues, each once, in order of first occurrence
RECURSIVE GetNames(_, _)
GetNames(nums, acc) ==
    IF nums = <<>> THEN acc
    ELSE IF InSeq(ResName(Head(nums)), acc) THEN GetNames(Tail(nums), acc)
    ELSE GetNames(Tail(nums), Append(acc, ResName(Head(nums))))

FilterAndName ==
    /\ pc = "filter"
    /\ LET nums == FilterNotResnums(titrated_residue_nums, notresnums) IN
       /\ titrated_residue_nums' = nums
       /\ titrated_residue_names' = GetNames(nums, <<>>)
    /\ pc' = "states"
    /\ UNCHANGED <<argv, args,
                   titrate_residues, resnums, notresnums, residue_states,
                   minpKa, maxpKa, resname_spec, nresname_spec, resnum_spec,
                   nresnum_spec, prmtop_residues, prmtop_indices, resdata,
                   stdout, failure>>
    /\ UNCHANGED addvars
    /\ UNCHANGED titrvars

\* -states must name as many states as residues are titrated; without it
\* every residue starts in state 0
CheckStates ==
    /\ pc = "states"
    /\ IF Len(residue_states) # 0
          /\ Len(residue_states) # Len(titrated_residue_nums)
       THEN Fail("state_count") /\ UNCHANGED residue_states
       ELSE /\ residue_states' =
                  IF Len(residue_states) = 0
                  THEN [x \in 1..Len(titrated_residue_nums) |-> 0]
                  ELSE residue_states
            /\ pc' = "load"
            /\ UNCHANGED failure
    /\ UNCHANGED <<argv, args,
                   titrate_residues, resnums, notresnums, minpKa, maxpKa,
                   resname_spec, nresname_spec, resnum_spec, nresnum_spec,
                   prmtop_residues, prmtop_indices, titrated_residue_nums,
                   titrated_residue_names, resdata, stdout>>
    /\ UNCHANGED addvars
    /\ UNCHANGED titrvars

\* ---------------------------------------------------------------- output
\* A field line of the record: the field name and the tokens appended to it
Field(f, ts) == [field |-> f, toks |-> ts]

\* print "&CNSTPH", then one getData call for each name of the name list
LoadData ==
    /\ pc = "load"
    /\ stdout' = Append(stdout, Field("&CNSTPH", <<>>))
    /\ resdata' \in [1..Len(titrated_residue_names) -> RefSets \cup {NotFound}]
    /\ pc' = "names"
    /\ UNCHANGED <<argv, args,
                   titrate_residues, resnums, notresnums, residue_states,
                   minpKa, maxpKa, resname_spec, nresname_spec, resnum_spec,
                   nresnum_spec, prmtop_residues, prmtop_indices,
                   titrated_residue_nums, titrated_residue_names, failure>>
    /\ UNCHANGED addvars
    /\ UNCHANGED titrvars

\* The entries z of every state record of every block, in block order
RECURSIVE Flatten(_, _, _)
Flatten(rd, from, to) ==
    IF rd = <<>> THEN <<>>
    ELSE Join([y \in 1..Len(Head(rd)) |->
                  SubSeq(Head(rd)[y], from,
                         IF to = 0 THEN Len(Head(rd)[y]) ELSE to)])
         \o Flatten(Tail(rd), from, to)

PrintNames ==
    /\ pc = "names"
    /\ IF \E x \in 1..Len(resdata) : resdata[x] = NotFound
       THEN Fail("lookup") /\ UNCHANGED stdout
       ELSE /\ stdout' = stdout \o
                  <<Field("CHRGDAT", Flatten(resdata, 3, 0)),
                    Field("PROTCNT", Flatten(resdata, 2, 2)),
                    Field("RESNAME",
                          [x \in 1..Len(titrated_residue_nums) |->
                              [name |-> ResName(titrated_residue_nums[x]),
                               num |-> titrated_residue_nums[x]]])>>
            /\ pc' = "resstate"
            /\ UNCHANGED failure
    /\ UNCHANGED <<argv, args,
                   titrate_residues, resnums, notresnums, residue_states,
                   minpKa, maxpKa, resname_spec, nresname_spec, resnum_spec,
                   nresnum_spec, prmtop_residues, prmtop_indices,
                   titrated_residue_nums, titrated_residue_names, resdata>>
    /\ UNCHANGED addvars
    /\ UNCHANGED titrvars

\* The range test with its upper bound off by one
StateOutOfRangeInclusive(s, rd) == s < 0 \/ s > Len(rd)

\* The range test made on a state index s against a reference state set rd
StateOutOfRange(s, rd) == s < 0 \/ s >= Len(rd)

\* The test of occurrence x against every entry of the name list bearing its name
BadState(x) ==
    \E y \in 1..Len(titrated_residue_names) :
       /\ ResName(titrated_residue_nums[x]) = titrated_residue_names[y]
       /\ StateOutOfRange(residue_states[x], resdata[y])

PrintResstate ==
    /\ pc = "resstate"
    /\ IF \E x \in 1..Len(titrated_residue_nums) : BadState(x)
       THEN Fail("state_range") /\ UNCHANGED stdout
       ELSE /\ stdout' = Append(stdout,
                  Field("RESSTATE", [x \in 1..Len(titrated_residue_nums) |->
                                        residue_states[x]]))
            /\ pc' = "stateinf"
            /\ UNCHANGED failure
    /\ UNCHANGED <<argv, args,
                   titrate_residues, resnums, notresnums, residue_states,
                   minpKa, maxpKa, resname_spec, nresname_spec, resnum_spec,
                   nresnum_spec, prmtop_residues, prmtop_indices,
                   titrated_residue_nums, titrated_residue_names, resdata>>
    /\ UNCHANGED addvars
    /\ UNCHANGED titrvars

\* The cursors advanced without discounting the two leading entries of a state
\* record, and by one per block instead of one per state
AddChargeWholeRecord(startchrg, rd) == startchrg + Len(rd[1]) * Len(rd)
AddStateOnePerBlock(startst, rd) == startst + 1

\* What one entry of the name list that is not the residue's adds to the cursors
AddCharge(startchrg, rd) == startchrg + (Len(rd[1]) - 2) * Len(rd)
AddState(startst, rd) == startst + Len(rd)

\* The loop over the name list for a residue named name, from entry y on
RECURSIVE Offsets(_, _, _, _)
Offsets(name, y, startchrg, startst) ==
    IF y > Len(titrated_residue_names)
    THEN [first_charge |-> startchrg, first_state |-> startst,
          num_atoms |-> -1, num_states |-> -1]
    ELSE IF name = titrated_residue_names[y]
    THEN [first_charge |-> startchrg, first_state |-> startst,
          num_atoms |-> Len(resdata[y][1]) - 2, num_states |-> Len(resdata[y])]
    ELSE Offsets(name, y + 1, AddCharge(startchrg, resdata[y]),
                 AddState(startst, resdata[y]))

\* The STATEINF group written with an index that counts from 1
StateInfOneBased(x) ==
    LET o == Offsets(ResName(titrated_residue_nums[x]), 1, 0, 0) IN
    [index |-> x,
     first_atom |-> PyIndex(prmtop_indices, titrated_residue_nums[x] - 1),
     first_charge |-> o.first_charge, first_state |-> o.first_state,
     num_atoms |-> o.num_atoms, num_states |-> o.num_states]

\* The STATEINF group of occurrence x (1-based here, printed as x - 1)
StateInf(x) ==
    LET o == Offsets(ResName(titrated_residue_nums[x]), 1, 0, 0) IN
    [index |-> x - 1,
     first_atom |-> PyIndex(prmtop_indices, titrated_residue_nums[x] - 1),
     first_charge |-> o.first_charge, first_state |-> o.first_state,
     num_atoms |-> o.num_atoms, num_states |-> o.num_states]

\* STATEINF, STATENE, TRESCNT and the closing "/"
PrintOffsets ==
    /\ pc = "stateinf"
    /\ stdout' = stdout \o
          <<Field("STATEINF",
                  [x \in 1..Len(titrated_residue_nums) |-> StateInf(x)]),
            Field("STATENE", Flatten(resdata, 1, 1)),
            Field("TRESCNT", <<Len(titrated_residue_nums)>>),
            Field("/", <<>>)>>
    /\ pc' = "done"
    /\ UNCHANGED <<argv, args,
                   titrate_residues, resnums, notresnums, residue_states,
                   minpKa, maxpKa, resname_spec, nresname_spec, resnum_spec,
                   nresnum_spec, prmtop_residues, prmtop_indices,
                   titrated_residue_nums, titrated_residue_names, resdata,
                   failure>>
    /\ UNCHANGED addvars
    /\ UNCHANGED titrvars

Next ==
    \/ ParseArg
    \/ ReadTopology
    \/ FilterPka
    \/ SelectResidues
    \/ FilterAndName
    \/ CheckStates
    \/ LoadData
    \/ PrintNames
    \/ PrintResstate
    \/ PrintOffsets

Spec == Init /\ [][Next]_vars

\* ----------------------------------------------------------------- addOn
LineWidth == 80

\* The wrap test letting one more character onto the line
WrapsLate(l, toadd) == Len(l) + Len(toadd) > LineWidth + 1

\* addOn(line, toadd): whether line is written out, and the line returned
Wraps(l, toadd) == Len(l) + Len(toadd) > LineWidth
addOn(l, toadd) == IF Wraps(l, toadd) THEN SP \o toadd ELSE l \o toadd

\* The i-th token of a field: len characters, the last one the comma
TokChar == <<"a", "b", "c", "d", "e", "f">>
Token(i, len) == [k \in 1..len |-> IF k = len THEN "," ELSE TokChar[i]]
TokLens == {1, LineWidth \div 2, LineWidth - 1, LineWidth, LineWidth + 1}
TokenLists ==
    UNION {{[i \in 1..n |-> Token(i, ls[i])] : ls \in [1..n -> TokLens]} :
           n \in 1..MaxToks}

\* What a field line starts as: " CHRGDAT=", or " " for the STATEINF groups
CHRGDAT == <<" ", "C", "H", "R", "G", "D", "A", "T", "=">>
Prefixes == {SP, CHRGDAT}

InitAddOn ==
    /\ pc = "idle"
    /\ argv = <<>>
    /\ args = <<>>
    /\ titrate_residues = titratable
    /\ resnums = <<>>
    /\ notresnums = <<>>
    /\ residue_states = <<>>
    /\ minpKa = DefaultMinpKa
    /\ maxpKa = DefaultMaxpKa
    /\ resname_spec = FALSE
    /\ nresname_spec = FALSE
    /\ resnum_spec = FALSE
    /\ nresnum_spec = FALSE
    /\ prmtop_residues = <<>>
    /\ prmtop_indices = <<>>
    /\ titrated_residue_nums = <<>>
    /\ titrated_residue_names = <<>>
    /\ resdata = <<>>
    /\ stdout = <<>>
    /\ failure = "none"
    /\ start \in Prefixes
    /\ line = start
    /\ printed = <<>>
    /\ toks \in TokenLists
    /\ tn = 0
    /\ apc = "run"
    /\ tpc = "idle"
    /\ numres = 0
    /\ numframes = 0
    /\ nresidues = 0
    /\ nrecords = 0
    /\ nread = 0
    /\ outlines = <<>>

\* line = addOn(line, toadd) for the next token of the field
AppendToken ==
    /\ apc = "run"
    /\ tn < Len(toks)
    /\ printed' = IF Wraps(line, toks[tn + 1]) THEN Append(printed, line)
                  ELSE printed
    /\ line' = addOn(line, toks[tn + 1])
    /\ tn' = tn + 1
    /\ UNCHANGED <<toks, start, apc>>
    /\ UNCHANGED mainvars
    /\ UNCHANGED titrvars

\* print >> sys.stdout, line  after the loop over the tokens
PrintLine ==
    /\ apc = "run"
    /\ tn = Len(toks)
    /\ printed' = Append(printed, line)
    /\ apc' = "done"
    /\ UNCHANGED <<line, toks, tn, start>>
    /\ UNCHANGED mainvars
    /\ UNCHANGED titrvars

NextAddOn == AppendToken \/ PrintLine

SpecAddOn == InitAddOn /\ [][NextAddOn]_vars

\* ------------------------------------- running_titration_curve.py: main
MaxTitr == 3
MaxFrames == 3

\* Every input file holds the same frames, each with one record for every
\* titrating residue, in the same order; the constructor needs two frames to
\* find the list of residues.
InitTitr ==
    /\ pc = "idle"
    /\ argv = <<>>
    /\ args = <<>>
    /\ titrate_residues = titratable
    /\ resnums = <<>>
    /\ notresnums = <<>>
    /\ residue_states = <<>>
    /\ minpKa = DefaultMinpKa
    /\ maxpKa = DefaultMaxpKa
    /\ resname_spec = FALSE
    /\ nresname_spec = FALSE
    /\ resnum_spec = FALSE
    /\ nresnum_spec = FALSE
    /\ prmtop_residues = <<>>
    /\ prmtop_indices = <<>>
    /\ titrated_residue_nums = <<>>
    /\ titrated_residue_names = <<>>
    /\ resdata = <<>>
    /\ stdout = <<>>
    /\ failure = "none"
    /\ line = <<>>
    /\ printed = <<>>
    /\ toks = <<>>
    /\ tn = 0
    /\ start = <<>>
    /\ apc = "idle"
    /\ tpc = "loop"
    /\ numres = 0
    /\ numframes = 0
    /\ nresidues \in 1..MaxTitr
    /\ \E f \in 2..MaxFrames : nrecords = f * nresidues
    /\ nread = 0
    /\ outlines = <<>>

\* The counters after the first statements of an iteration
NextNumres(nr) == IF (nr + 1) % nresidues = 0 THEN 1 ELSE nr + 1
NextNumframes(nr, nf) == IF (nr + 1) % nresidues = 0 THEN nf + 1 ELSE nf

\* One iteration that reads a record from every file; the fit may fail, and
\* then nothing is written
FitRecord ==
    /\ tpc = "loop"
    /\ nread < nrecords
    /\ numres' = NextNumres(numres)
    /\ numframes' = NextNumframes(numres, numframes)
    /\ nread' = nread + 1
    /\ \E fitted \in BOOLEAN :
          outlines' = IF fitted
                      THEN Append(outlines, [frame |-> numframes',
                                             record |-> nread + 1])
                      ELSE outlines
    /\ UNCHANGED <<tpc, nresidues, nrecords>>
    /\ UNCHANGED <<mainvars, addvars>>

\* The iteration in which get_next_residue finds no record: the loop ends
EndOfData ==
    /\ tpc = "loop"
    /\ nread = nrecords
    /\ numres' = NextNumres(numres)
    /\ numframes' = NextNumframes(numres, numframes)
    /\ tpc' = "done"
    /\ UNCHANGED <<nresidues, nrecords, nread, outlines>>
    /\ UNCHANGED <<mainvars, addvars>>

NextTitr == FitRecord \/ EndOfData

SpecTitr == InitTitr /\ [][NextTitr]_vars

\* ======================================================================
\* Properties
\* ======================================================================
\* The names of a string of names: its maximal runs of non-blank characters
RECURSIVE Words(_, _)
Words(str, cur) ==
    IF str = <<>> THEN (IF cur = <<>> THEN {} ELSE {cur})
    ELSE IF Head(str) = " "
         THEN (IF cur = <<>> THEN {} ELSE {cur}) \cup Words(Tail(str), <<>>)
         ELSE Words(Tail(str), Append(cur, Head(str)))
ActiveNames == Words(titrate_residues, <<>>)

\* The tokens of an emitted field line
OutToks(f) == stdout[CHOOSE i \in 1..Len(stdout) : stdout[i].field = f].toks

Occurrences == 1..Len(titrated_residue_nums)
OccName(x) == ResName(titrated_residue_nums[x])
\* The entry of the name list that bears the name of occurrence x
NameIndex(x) == CHOOSE k \in 1..Len(titrated_residue_names) :
                    titrated_residue_names[k] = OccName(x)
NumAtoms(k) == Len(resdata[k][1]) - 2
NumStates(k) == Len(resdata[k])

RECURSIVE SumCharges(_)
SumCharges(k) ==
    IF k = 0 THEN 0 ELSE SumCharges(k - 1) + NumAtoms(k) * NumStates(k)
RECURSIVE SumStates(_)
SumStates(k) == IF k = 0 THEN 0 ELSE SumStates(k - 1) + NumStates(k)

Count(v, seq) == Cardinality({i \in 1..Len(seq) : seq[i] = v})

\* C1: every STATEINF group carries, for the k-th entry of the duplicate-free
\* name list, FIRST_CHARGE = sum of num_atoms * num_states over the entries
\* before k, FIRST_STATE = sum of num_states over the entries before k, and
\* the NUM_ATOMS and NUM_STATES of entry k.
C1_OffsetsByNameList ==
    pc = "done" =>
       /\ \A a, b \in 1..Len(titrated_residue_names) :
             titrated_residue_names[a] = titrated_residue_names[b] => a = b
       /\ \A x \in Occurrences :
             /\ \E k \in 1..Len(titrated_residue_names) :
                   titrated_residue_names[k] = OccName(x)
             /\ LET k == NameIndex(x)
                    g == OutToks("STATEINF")[x] IN
                /\ g.first_charge = SumCharges(k - 1)
                /\ g.first_state = SumStates(k - 1)
                /\ g.num_atoms = NumAtoms(k)
                /\ g.num_states = NumStates(k)

\* A finished run with three names whose second block starts past the first
C1_Witness ==
    /\ pc = "done"
    /\ Len(titrated_residue_names) = 3
    /\ NumAtoms(1) # NumAtoms(2)
    /\ NumStates(1) # NumStates(2)
    /\ \E x \in Occurrences : NameIndex(x) = 3

\* The residue numbers whose name is one of the active names, in ascending order
RECURSIVE ExactScan(_)
ExactScan(n) ==
    IF n = 0 THEN <<>>
    ELSE IF prmtop_residues[n] \in ActiveNames
         THEN Append(ExactScan(n - 1), n)
         ELSE ExactScan(n - 1)

\* C2: without -resnum the selection is exactly the residues whose name
\* equals one of the active names, in ascending order.
C2_ExactNameSelection ==
    (pc = "filter" /\ resnums = <<>>) =>
       titrated_residue_nums = ExactScan(Len(prmtop_residues))

\* Inputs on which neither the partial name match nor a residue number below 1
\* plays a part
PlainInput ==
    /\ \A i \in 1..Len(resnums) : resnums[i] >= 1
    /\ \A n \in 1..Len(prmtop_residues) :
          Titratable(prmtop_residues[n]) => prmtop_residues[n] \in ActiveNames

AfterFilter == pc \in {"states", "load", "names", "resstate", "stateinf", "done"}

\* C3 as stated: the final selection holds no residue number twice (here
\* for plain inputs only, which is enough to refute it).
C3_NoDuplicateNumbers ==
    (AfterFilter /\ PlainInput) =>
       \A n \in 0..Len(prmtop_residues) : Count(n, titrated_residue_nums) <= 1

\* C3 as amended: a number is in the final selection at most once, unless
\* the -resnum list repeats it, and then as often as that list gives it.
C3_NoDuplicatesUnlessGiven ==
    AfterFilter =>
       \A n \in 0..Len(prmtop_residues) :
          \/ Count(n, titrated_residue_nums) <= 1
          \/ Count(n, titrated_residue_nums) = Count(n, resnums)

\* A finished run whose -resnum list named two different residues
C3_Witness ==
    /\ pc = "done"
    /\ Len(resnums) = 2
    /\ resnums[1] # resnums[2]
    /\ titrated_residue_nums = resnums

\* C4: the run stops with the range error exactly when some selected residue
\* has a state index below 0 or at least the number of states of its name.
C4_StateRange ==
    /\ pc \in {"stateinf", "done"} =>
          \A x \in Occurrences :
             /\ residue_states[x] >= 0
             /\ residue_states[x] <= NumStates(NameIndex(x)) - 1
    /\ failure = "state_range" =>
          \E x \in Occurrences :
             \/ residue_states[x] < 0
             \/ residue_states[x] >= NumStates(NameIndex(x))

\* A run that passed the check with a residue in its last state
C4_Witness ==
    /\ pc = "done"
    /\ \E x \in Occurrences :
          /\ residue_states[x] = NumStates(NameIndex(x)) - 1
          /\ residue_states[x] > 0

\* C5: a run that ends in an error has written nothing to standard output
\* (here for plain inputs only, which is enough to refute it).
C5_NoOutputBeforeFailure ==
    (failure # "none" /\ PlainInput) => stdout = <<>>

\* ---- addOn
\* The lines of the field: those written, and the one still accumulated
Lines == IF apc = "done" THEN printed ELSE Append(printed, line)
\* A line without what it starts with: the field's start, or the one blank
Body(i) == IF i = 1 THEN SubSeq(Lines[1], Len(start) + 1, Len(Lines[1]))
           ELSE Tail(Lines[i])
\* Line i holds the whole tokens a..b and nothing else
HoldsTokens(i, a, b) ==
    /\ Body(i) = Join(SubSeq(toks, a, b))
    /\ IF i = 1 THEN SubSeq(Lines[1], 1, Len(start)) = start
       ELSE Head(Lines[i]) = " " /\ Lines[i][2] # " "
\* The lines are made of whole tokens, in the order given, none left out
WholeTokensInOrder ==
    /\ \A i \in 1..Len(Lines) :
          \E a \in 1..(tn + 1), b \in 0..tn : HoldsTokens(i, a, b)
    /\ Join([i \in 1..Len(Lines) |-> Body(i)]) = Join(SubSeq(toks, 1, tn))

\* C6 as stated: a line is at most 80 characters long unless it is a single
\* token of more than 80 characters; lines break between tokens only.
C6_LineAtMost80 ==
    apc # "idle" =>
       /\ \A i \in 1..Len(Lines) :
             \/ Len(Lines[i]) <= LineWidth
             \/ \E k \in 1..tn : /\ Len(toks[k]) > LineWidth
                                 /\ Lines[i] \in {toks[k], SP \o toks[k]}
       /\ WholeTokensInOrder

\* C6 as amended: a line is at most 80 characters long unless it is the one
\* blank followed by a single token of 80 characters or more; lines break
\* between tokens only, tokens keep their order, and every continuation line
\* starts with exactly one blank.
C6_LineAtMost80OrLongToken ==
    apc # "idle" =>
       /\ \A i \in 1..Len(Lines) :
             \/ Len(Lines[i]) <= LineWidth
             \/ \E k \in 1..tn : /\ Len(toks[k]) >= LineWidth
                                 /\ Lines[i] = SP \o toks[k]
       /\ WholeTokensInOrder

\* A field written out with a token of exactly 80 characters on a line of 81,
\* and another line holding two tokens
C6_Witness ==
    /\ apc = "done"
    /\ \E i \in 1..Len(printed) : Len(printed[i]) = LineWidth + 1
    /\ \E i \in 1..Len(printed), a \in 1..(Len(toks) - 1) :
          HoldsTokens(i, a, a + 1)

\* ---- pKa filter
PkaFilterDone ==
    pc \notin {"parse", "pka"} /\ failure \notin {"usage", "input"}

\* C7: once the pKa filter has run over the default set, the active names
\* are the built-in names whose pKa lies within [minpKa, maxpKa].
C7_PkaFilterKeepsInRange ==
    (PkaFilterDone /\ ~resname_spec /\ ~nresname_spec) =>
       /\ failure # "TypeError"
       /\ \A x \in 1..Len(titrate_name_holder) :
             titrate_name_holder[x] \in ActiveNames <=> ~PkaOutside(x)

\* C8: with a -resnum list the run gets past the selection only if every
\* number lies in 1..topology length and names a residue whose name is an
\* active name, and then the selection is the list as given.
C8_IncludeListValidated ==
    (pc = "filter" /\ resnums # <<>>) =>
       /\ \A i \in 1..Len(resnums) :
             /\ resnums[i] >= 1
             /\ resnums[i] <= Len(prmtop_residues)
             /\ prmtop_residues[resnums[i]] \in ActiveNames
       /\ titrated_residue_nums = resnums

\* C9: no run completes with a record whose TRESCNT is 0 (here for plain
\* inputs only, which is enough to refute it).
C9_NoEmptyRecord ==
    (pc = "done" /\ PlainInput) => OutToks("TRESCNT") # <<0>>

\* ---- offsets per occurrence
RECURSIVE SumChargesOcc(_)
SumChargesOcc(x) ==
    IF x = 0 THEN 0
    ELSE SumChargesOcc(x - 1)
         + NumAtoms(NameIndex(x)) * NumStates(NameIndex(x))
RECURSIVE SumStatesOcc(_)
SumStatesOcc(x) ==
    IF x = 0 THEN 0 ELSE SumStatesOcc(x - 1) + NumStates(NameIndex(x))

\* C10 as stated: the offsets of occurrence i are the sums over all the
\* selected occurrences before i (here for plain inputs only, which is
\* enough to refute it).
C10_OffsetsPerOccurrence ==
    (pc = "done" /\ PlainInput) =>
       \A x \in Occurrences :
          /\ OutToks("STATEINF")[x].first_charge = SumChargesOcc(x - 1)
          /\ OutToks("STATEINF")[x].first_state = SumStatesOcc(x - 1)

\* The first selected occurrence that bears the name of occurrence x
FirstOcc(x) == CHOOSE i \in Occurrences :
                  /\ OccName(i) = OccName(x)
                  /\ \A j \in 1..(i - 1) : OccName(j) # OccName(x)
IsFirstOcc(i) == FirstOcc(i) = i

\* The sums over the occurrences before x that are the first of their name
RECURSIVE SumChargesFirst(_)
SumChargesFirst(x) ==
    IF x = 0 THEN 0
    ELSE SumChargesFirst(x - 1)
         + (IF IsFirstOcc(x)
            THEN NumAtoms(NameIndex(x)) * NumStates(NameIndex(x)) ELSE 0)
RECURSIVE SumStatesFirst(_)
SumStatesFirst(x) ==
    IF x = 0 THEN 0
    ELSE SumStatesFirst(x - 1)
         + (IF IsFirstOcc(x) THEN NumStates(NameIndex(x)) ELSE 0)

\* C10 as amended: the offsets of occurrence i are the sums over the
\* occurrences that come before the first occurrence of i's name and are the
\* first of their own name: every name is counted once, and occurrences that
\* share a name share their offsets.
C10_OffsetsPerFirstOccurrence ==
    pc = "done" =>
       \A x \in Occurrences :
          /\ OutToks("STATEINF")[x].first_charge
                = SumChargesFirst(FirstOcc(x) - 1)
          /\ OutToks("STATEINF")[x].first_state
                = SumStatesFirst(FirstOcc(x) - 1)

\* A finished run in which a later occurrence shares the name of an earlier
\* one and a residue of another name has a block before it
C10_Witness ==
    /\ pc = "done"
    /\ \E x \in Occurrences :
          /\ FirstOcc(x) # x
          /\ OutToks("STATEINF")[x].first_state > 0

\* ---- the record read back
\* C11: in a finished record TRESCNT, the number of RESSTATE entries, of
\* RESNAME residue tokens and of STATEINF groups all equal the number of
\* selected occurrences; the groups are indexed 0..N-1; and the i-th entry
\* of each field is that of the i-th selected residue, with the offsets of
\* its name's block.
C11_RecordMatchesSelection ==
    pc = "done" =>
       LET N == Len(titrated_residue_nums) IN
       /\ OutToks("TRESCNT") = <<N>>
       /\ Len(OutToks("RESSTATE")) = N
       /\ Len(OutToks("RESNAME")) = N
       /\ Len(OutToks("STATEINF")) = N
       /\ \A i \in 1..N :
             LET n == titrated_residue_nums[i]
                 g == OutToks("STATEINF")[i] IN
             /\ g.index = i - 1
             /\ OutToks("RESNAME")[i].num = n
             /\ OutToks("RESSTATE")[i] = residue_states[i]
             /\ resnums # <<>> => n = resnums[i]
             /\ \A l \in StateLists :
                   (\E a \in 1..Len(argv) :
                       argv[a].flag = "-states" /\ argv[a].nums = l)
                   => OutToks("RESSTATE")[i] = l[i]
             /\ (n >= 1 /\ n <= Len(prmtop_residues)) =>
                   /\ OutToks("RESNAME")[i].name = prmtop_residues[n]
                   /\ g.first_atom = prmtop_indices[n]
             /\ g.first_state = SumStates(NameIndex(i) - 1)
             /\ g.first_charge = SumCharges(NameIndex(i) - 1)

\* A finished record of several residues, the second not in its first state
C11_Witness ==
    /\ pc = "done"
    /\ Len(titrated_residue_nums) >= 2
    /\ OutToks("RESSTATE")[2] > 0
    /\ OutToks("STATEINF")[2].index = 1
    /\ OutToks("TRESCNT") = <<Len(titrated_residue_nums)>>

\* ---- contradictory filters
\* The options read so far
ReadArgs == SubSeq(argv, 1, Len(argv) - Len(args))
Given(f) == \E a \in 1..Len(ReadArgs) : ReadArgs[a].flag = f

\* C12: once both -resname and -notresname, or both -resnum and -notresnum,
\* have been read, in either order, the run has ended with the usage error,
\* with no topology read and nothing written to standard output.
C12_ContradictoryFiltersRejected ==
    (\/ Given("-resname") /\ Given("-notresname")
     \/ Given("-resnum") /\ Given("-notresnum")) =>
       /\ pc = "exit"
       /\ failure = "usage"
       /\ prmtop_residues = <<>>
       /\ stdout = <<>>

\* A run ended by -notresname given after -resname
C12_Witness ==
    /\ Len(argv) = 2
    /\ argv[1].flag = "-resname"
    /\ argv[2].flag = "-notresname"
    /\ args = <<>>
    /\ failure = "usage"

\* ---- frame numbers of the running titration curve
\* The frame a record belongs to, counting frames from 0: records 1..N are
\* those of frame 0, N+1..2N those of frame 1, ...
FrameOf(r) == (r - 1) \div nresidues

\* C13: while records are read numframes is the number of whole frames read
\* so far; the records of one frame are written with one frame number, and
\* those of the next frame with the next number.
C13_FrameNumberPerFrame ==
    tpc = "loop" =>
       /\ numframes = nread \div nresidues
       /\ \A a, b \in 1..Len(outlines) :
             /\ FrameOf(outlines[a].record) = FrameOf(outlines[b].record)
                   => outlines[a].frame = outlines[b].frame
             /\ FrameOf(outlines[b].record) = FrameOf(outlines[a].record) + 1
                   => outlines[b].frame = outlines[a].frame + 1

====
